---- MODULE Spec2Model ----
(***************************************************************************)
(* Model of BFAIR/thermo/io.py (the model factory, create_model and        *)
(* adjust_model) and of tests/test_data/MFA_modelInputsData/               *)
(* generate_test_data.py (the fixture-generation script).                  *)
(*                                                                         *)
(* Three specifications share the module:                                  *)
(*   SpecAdjust  one call of adjust_model, statement by statement;         *)
(*   SpecCreate  the import of io.py followed by calls of create_model and *)
(*               attribute accesses on the factory `models`;               *)
(*   SpecScript  one run of generate_test_data.py, statement by statement. *)
(***************************************************************************)
EXTENDS Integers, Sequences, FiniteSets, TLC

VARIABLES
    \* ---- adjust_model ----
    tmodel,       \* the ThermoModel: reactions, parent.reactions, compartments, log_concentration
    tmodel0,      \* the same object as it was when adjust_model was called
    rxn_bounds,   \* argument: list of rows [id, lb, ub]
    lc_bounds,    \* argument: list of rows [id, lb, ub]
    apc,          \* position of the call
    row,          \* index of the current row of the loop that is running
    todo,         \* compartments the inner loop has not visited yet for the current row
    writes,       \* the setter calls that completed, in order
    exc,          \* the exception that left adjust_model: its type and the line that raised it
    \* ---- the static folder, the factory and create_model ----
    static_files, \* file names in the static folder, each the list of its dot-separated parts
    static_dirs,  \* model names with a sub-folder holding lexicon.csv and compartment_data.json
    cpc,          \* "import" until io.py has been imported, then "ready"
    _list,        \* _ModelFactory._list
    loggers,      \* names of the pytfa loggers whose stream handlers are at level ERROR
    created,      \* number of ThermoModel objects constructed so far
    op,           \* the last top-level operation: a create_model call or an attribute access
    trace,        \* the functions the last operation called, in order
    outcome,      \* what the last operation returned or raised
    nOps,         \* number of top-level operations so far
    \* ---- generate_test_data.py ----
    cwd_files,    \* the CSV files present in the working directory
    spc,          \* index into Script of the next statement to run
    filehandler,  \* state of the file object bound to `filehandler`
    script_exc    \* the exception that ended the script, or "none"

adjustVars == <<tmodel, tmodel0, rxn_bounds, lc_bounds, apc, row, todo, writes, exc>>
createVars == <<static_files, static_dirs, cpc, _list, loggers, created, op, trace, outcome, nOps>>
scriptVars == <<cwd_files, spc, filehandler, script_exc>>

vars == <<adjustVars, createVars, scriptVars>>

(***************************************************************************)
(* Bounds of the model.                                                    *)
(***************************************************************************)
MaxRows == 2

NoException == [type |-> "none", line |-> 0]

(***************************************************************************)
(* The parts of the state a specification does not exercise.               *)
(***************************************************************************)
NoOp == [kind |-> "none", item |-> <<>>, args |-> <<>>]
NoOutcome == [kind |-> "none", value |-> [kind |-> "None", of |-> <<>>], exc |-> NoException]

\* io.py has not been imported.
IdleCreate ==
    /\ static_files = {}
    /\ static_dirs = {}
    /\ cpc = "idle"
    /\ _list = <<>>
    /\ loggers = {}
    /\ created = 0
    /\ op = NoOp
    /\ trace = <<>>
    /\ outcome = NoOutcome
    /\ nOps = 0

\* generate_test_data.py has not been started.
IdleScript ==
    /\ cwd_files = {}
    /\ spc = 0
    /\ filehandler = "unbound"
    /\ script_exc = "none"

(***************************************************************************)
(* adjust_model                                                            *)
(***************************************************************************)

\* All sequences over S of length at most n.
SeqUpTo(S, n) == UNION {[1..k -> S] : k \in 0..n}

\* DictList.has_id
has_id(dictlist, id) == id \in DOMAIN dictlist

\* met + "_" + compartment
MetId(met, compartment) == met \o "_" \o compartment

\* Faulty variants of the reaction setter: the two bounds exchanged; every
\* reaction of the model written instead of the one looked up.
ReactionSetBounds_Swapped(reactions, id, lb, ub) == [reactions EXCEPT ![id] = <<ub, lb>>]

ReactionSetBounds_All(reactions, id, lb, ub) == [r \in DOMAIN reactions |-> <<lb, ub>>]

\* reaction.bounds = lb, ub
ReactionSetBounds(reactions, id, lb, ub) == [reactions EXCEPT ![id] = <<lb, ub>>]

\* Faulty variant of the variable setter: the two bounds exchanged.
VariableSetBounds_Swapped(variables, id, lb, ub) == [variables EXCEPT ![id] = <<ub, lb>>]

\* variable.set_bounds(lb, ub)
VariableSetBounds(variables, id, lb, ub) == [variables EXCEPT ![id] = <<lb, ub>>]

\* The library exception a setter may raise.
LibraryErrors == {"ValueError"}

\* Values the tables are drawn from.
BoundPairs == {<<0, 1>>, <<2, 3>>}
RxnRowIds == {"r1", "r9"}
LcRowIds == {"a", "a_b"}
\* The bounds of a row for r9 are never read (r9 is in no model): one pair is
\* enough for them.
RxnRows ==
    {[id |-> "r1", lb |-> b[1], ub |-> b[2]] : b \in BoundPairs}
       \cup {[id |-> r, lb |-> 0, ub |-> 1] : r \in RxnRowIds \ {"r1"}}
LcRows == {[id |-> m, lb |-> b[1], ub |-> b[2]] : m \in LcRowIds, b \in BoundPairs}

\* The models adjust_model is called on: reactions r1 and r2 (r9 is in no
\* model), a parent cobra model with the same reactions, and log-concentration
\* variables for a in c and e and for a_b in c.
ModelReactions == [r \in {"r1", "r2"} |-> <<-1000, 1000>>]
ModelLogConcentration == [v \in {"a_c", "a_e", "a_b_c"} |-> <<-23, 5>>]
CompartmentChoices == {{"c", "e"}, {"c", "b_c"}}
\* The parent either has the reactions of tmodel or has lost r1 since.
ParentChoices == {ModelReactions, [r \in {"r2"} |-> <<-1000, 1000>>]}

\* adjust_model has not been called.
IdleAdjust ==
    /\ tmodel = [reactions |-> <<>>, parent |-> <<>>, compartments |-> {}, log_concentration |-> <<>>]
    /\ tmodel0 = tmodel
    /\ rxn_bounds = <<>>
    /\ lc_bounds = <<>>
    /\ apc = "idle"
    /\ row = 0
    /\ todo = {}
    /\ writes = <<>>
    /\ exc = NoException

InitAdjust ==
    /\ IdleCreate
    /\ IdleScript
    /\ \E comps \in CompartmentChoices, parent \in ParentChoices :
          tmodel = [reactions |-> ModelReactions,
                    parent |-> parent,
                    compartments |-> comps,
                    log_concentration |-> ModelLogConcentration]
    /\ tmodel0 = tmodel
    /\ rxn_bounds \in SeqUpTo(RxnRows, MaxRows)
    /\ lc_bounds \in SeqUpTo(LcRows, MaxRows)
    /\ apc = "rxn_loop"
    /\ row = 1
    /\ todo = {}
    /\ writes = <<>>
    /\ exc = NoException

\* line 165-166: a row whose id is no reaction of tmodel is passed over
RxnSkip ==
    /\ UNCHANGED <<createVars, scriptVars>>
    /\ apc = "rxn_loop"
    /\ row <= Len(rxn_bounds)
    /\ ~has_id(tmodel.reactions, rxn_bounds[row].id)
    /\ row' = row + 1
    /\ UNCHANGED <<tmodel, tmodel0, rxn_bounds, lc_bounds, apc, todo, writes, exc>>

\* Faulty variant of line 167: the reaction of tmodel is written where the
\* reaction of tmodel.parent should be.
RxnSetParent_TmodelFirst ==
    /\ UNCHANGED <<createVars, scriptVars>>
    /\ apc = "rxn_loop"
    /\ row <= Len(rxn_bounds)
    /\ has_id(tmodel.reactions, rxn_bounds[row].id)
    /\ LET r == rxn_bounds[row] IN
       /\ tmodel' = [tmodel EXCEPT !.reactions = ReactionSetBounds(@, r.id, r.lb, r.ub)]
       /\ writes' = Append(writes, [target |-> "tmodel", id |-> r.id, row |-> row])
    /\ apc' = "rxn_tmodel"
    /\ UNCHANGED <<tmodel0, rxn_bounds, lc_bounds, row, todo, exc>>

\* line 167: tmodel.parent.reactions.get_by_id(rxn_id).bounds = lb, ub
RxnSetParent ==
    /\ UNCHANGED <<createVars, scriptVars>>
    /\ apc = "rxn_loop"
    /\ row <= Len(rxn_bounds)
    /\ has_id(tmodel.reactions, rxn_bounds[row].id)
    /\ LET r == rxn_bounds[row] IN
       IF has_id(tmodel.parent, r.id)
       THEN /\ tmodel' = [tmodel EXCEPT !.parent = ReactionSetBounds(@, r.id, r.lb, r.ub)]
            /\ writes' = Append(writes, [target |-> "parent", id |-> r.id, row |-> row])
            /\ apc' = "rxn_tmodel"
            /\ exc' = exc
       ELSE /\ apc' = "raised"
            /\ exc' = [type |-> "KeyError", line |-> 167]
            /\ UNCHANGED <<tmodel, writes>>
    /\ UNCHANGED <<tmodel0, rxn_bounds, lc_bounds, row, todo>>

\* line 168: tmodel.reactions.get_by_id(rxn_id).bounds = lb, ub
RxnSetTmodel ==
    /\ UNCHANGED <<createVars, scriptVars>>
    /\ apc = "rxn_tmodel"
    /\ LET r == rxn_bounds[row] IN
       /\ tmodel' = [tmodel EXCEPT !.reactions = ReactionSetBounds(@, r.id, r.lb, r.ub)]
       /\ writes' = Append(writes, [target |-> "tmodel", id |-> r.id, row |-> row])
    /\ apc' = "rxn_loop"
    /\ row' = row + 1
    /\ UNCHANGED <<tmodel0, rxn_bounds, lc_bounds, todo, exc>>

\* line 165 exhausted, line 170 entered
RxnLoopEnd ==
    /\ UNCHANGED <<createVars, scriptVars>>
    /\ apc = "rxn_loop"
    /\ row > Len(rxn_bounds)
    /\ apc' = "lc_loop"
    /\ row' = 1
    /\ todo' = tmodel.compartments
    /\ UNCHANGED <<tmodel, tmodel0, rxn_bounds, lc_bounds, writes, exc>>

\* lines 171-173: a (met, compartment) pair with no log-concentration variable
LcSkip ==
    /\ UNCHANGED <<createVars, scriptVars>>
    /\ apc = "lc_loop"
    /\ row <= Len(lc_bounds)
    /\ \E compartment \in todo :
          /\ ~has_id(tmodel.log_concentration, MetId(lc_bounds[row].id, compartment))
          /\ todo' = todo \ {compartment}
    /\ UNCHANGED <<tmodel, tmodel0, rxn_bounds, lc_bounds, apc, row, writes, exc>>

\* lines 171-174: tmodel.log_concentration.get_by_id(met_id).variable.set_bounds(lb, ub)
LcSetBounds ==
    /\ UNCHANGED <<createVars, scriptVars>>
    /\ apc = "lc_loop"
    /\ row <= Len(lc_bounds)
    /\ \E compartment \in todo :
          LET r == lc_bounds[row]
              met_id == MetId(r.id, compartment)
          IN /\ has_id(tmodel.log_concentration, met_id)
             /\ tmodel' = [tmodel EXCEPT !.log_concentration = VariableSetBounds(@, met_id, r.lb, r.ub)]
             /\ writes' = Append(writes, [target |-> "lc", id |-> met_id, row |-> row])
             /\ todo' = todo \ {compartment}
    /\ UNCHANGED <<tmodel0, rxn_bounds, lc_bounds, apc, row, exc>>

\* line 171 exhausted for the current row: next row of line 170
LcRowEnd ==
    /\ UNCHANGED <<createVars, scriptVars>>
    /\ apc = "lc_loop"
    /\ row <= Len(lc_bounds)
    /\ todo = {}
    /\ row' = row + 1
    /\ todo' = tmodel.compartments
    /\ UNCHANGED <<tmodel, tmodel0, rxn_bounds, lc_bounds, apc, writes, exc>>

\* line 170 exhausted: adjust_model returns None
AdjustReturn ==
    /\ UNCHANGED <<createVars, scriptVars>>
    /\ apc = "lc_loop"
    /\ row > Len(lc_bounds)
    /\ apc' = "returned"
    /\ UNCHANGED <<tmodel, tmodel0, rxn_bounds, lc_bounds, row, todo, writes, exc>>

\* A setter of lines 167, 168 or 174 raises inside the library: adjust_model
\* has no try block, so the exception leaves the call as it is and nothing
\* that was written is undone.
SetterRaises ==
    /\ UNCHANGED <<createVars, scriptVars>>
    /\ \E e \in LibraryErrors :
       \/ /\ apc = "rxn_loop"
          /\ row <= Len(rxn_bounds)
          /\ has_id(tmodel.reactions, rxn_bounds[row].id)
          /\ has_id(tmodel.parent, rxn_bounds[row].id)
          /\ exc' = [type |-> e, line |-> 167]
       \/ /\ apc = "rxn_tmodel"
          /\ exc' = [type |-> e, line |-> 168]
       \/ /\ apc = "lc_loop"
          /\ row <= Len(lc_bounds)
          /\ \E compartment \in todo :
                has_id(tmodel.log_concentration, MetId(lc_bounds[row].id, compartment))
          /\ exc' = [type |-> e, line |-> 174]
    /\ apc' = "raised"
    /\ UNCHANGED <<tmodel, tmodel0, rxn_bounds, lc_bounds, row, todo, writes>>

NextAdjust ==
    \/ RxnSkip
    \/ RxnSetParent
    \/ RxnSetTmodel
    \/ RxnLoopEnd
    \/ LcSkip
    \/ LcSetBounds
    \/ LcRowEnd
    \/ AdjustReturn
    \/ SetterRaises

SpecAdjust == InitAdjust /\ [][NextAdjust]_vars

(***************************************************************************)
(* The static folder, the model factory and create_model                   *)
(*                                                                         *)
(* A file name or a model name is the list of its dot-separated parts:     *)
(* "small_ecoli.json" is <<"small_ecoli", "json">>.                        *)
(***************************************************************************)
MaxOps == 2

\* Python's None and the values a caller may pass for the three optional
\* arguments: an empty container and a filled one, neither of which is None.
None == [kind |-> "None", of |-> <<>>]
EmptyData == [kind |-> "user", of |-> <<"empty">>]
FullData == [kind |-> "user", of |-> <<"full">>]
DataValues == {None, EmptyData, FullData}
\* What the pytfa readers return for a file of the static folder.
FileData(path) == [kind |-> "file", of |-> path]

FileUniverse ==
    {<<"small_ecoli", "json">>, <<"iJO1366", "v2", "json">>, <<"thermo_data", "thermodb">>}
DirUniverse == {<<"small_ecoli">>}
ModelNames == {<<"small_ecoli">>, <<"iJO1366">>}
\* Attributes the factory object has without __getattr__.
InstanceAttributes == {<<"_list">>}
AttrNames == ModelNames \cup InstanceAttributes

Range(s) == {s[i] : i \in 1..Len(s)}
\* The lists that hold every element of the finite set S once.
Orderings(S) == {s \in [1..Cardinality(S) -> S] : Range(s) = S}

\* glob(_path("*.json")): the names that end in ".json"
glob_json(files) == {f \in files : Len(f) >= 2 /\ f[Len(f)] = "json"}

\* line 28: os.path.basename(path).split(".")[0]
ListedName(file) == <<file[1]>>

\* model_name + ".json"
JsonFile(model_name) == model_name \o <<"json">>

\* f'thermomodel_{name}'
LoggerName(name) == <<"thermomodel_">> \o name

\* Faulty variant of the test `data is None`: the truth value is tested, so an
\* empty container counts as missing.
IsNone_Falsy(data) == data = None \/ data = EmptyData

\* line 120: data is None
IsNone(data) == data = None

\* Python's all() and any() on a list of booleans
all(bools) == \A i \in 1..Len(bools) : bools[i]

\* Faulty variant of any(): only the first element is looked at.
any_First(bools) == Len(bools) > 0 /\ bools[1]

any(bools) == \E i \in 1..Len(bools) : bools[i]

Called(cs, fn, arg) == [cs EXCEPT !.trace = Append(@, [fn |-> fn, arg |-> arg])]
Raised(cs, type, line) == [cs EXCEPT !.exc = [type |-> type, line |-> line]]
\* No statement of the call has raised; once one has, no later statement runs.
Running(cs) == cs.exc = NoException

\* lines 69-90: load_data reads thermo_data.thermodb, <model_name>/lexicon.csv
\* and <model_name>/compartment_data.json from the static folder
load_data(cs) ==
    LET c == Called(cs, "load_data", cs.model_name) IN
    IF <<"thermo_data", "thermodb">> \notin static_files THEN Raised(c, "FileNotFoundError", 87)
    ELSE IF cs.model_name \notin static_dirs THEN Raised(c, "FileNotFoundError", 88)
    ELSE [c EXCEPT !.thermo_data = FileData(<<"thermo_data.thermodb">>),
                   !.lexicon = FileData(cs.model_name \o <<"lexicon.csv">>),
                   !.compartment_data = FileData(cs.model_name \o <<"compartment_data.json">>)]

\* lines 120-124: the all-or-none validation of the three optional arguments
Validate(cs) ==
    LET data_is_none == <<IsNone(cs.thermo_data), IsNone(cs.lexicon),
                          IsNone(cs.compartment_data)>>
    IN IF ~Running(cs) THEN cs
       ELSE IF all(data_is_none) THEN load_data(cs)
       ELSE IF any(data_is_none) THEN Raised(cs, "ValueError", 124)
       ELSE cs

\* lines 44-49: the stream handlers of the logger are set to level ERROR
_silence_pytfa(cs, logger_name) ==
    [Called(cs, "_silence_pytfa", logger_name) EXCEPT !.loggers = @ \cup {logger_name}]

\* lines 126-129
Silence(cs) ==
    IF ~Running(cs) THEN cs ELSE
    _silence_pytfa(_silence_pytfa(cs, LoggerName(<<"None">>)), LoggerName(cs.model_name))

\* lines 52-66 and 131: load_json_model(_path(model_name + ".json"))
load_cbm(cs) ==
    LET c == Called(cs, "load_cbm", cs.model_name) IN
    IF ~Running(cs) THEN cs
    ELSE IF JsonFile(cs.model_name) \in static_files
    THEN [c EXCEPT !.cmodel = FileData(JsonFile(cs.model_name))]
    ELSE Raised(c, "FileNotFoundError", 66)

\* lines 132-146: the ThermoModel is constructed, named, annotated, given its
\* compartment data, configured, prepared and converted
Build(cs) ==
    LET c1 == Called(cs, "ThermoModel", <<cs.thermo_data, cs.cmodel>>)
        c2 == Called(c1, "annotate_from_lexicon", <<cs.lexicon>>)
        c3 == Called(c2, "apply_compartment_data", <<cs.compartment_data>>)
    IN IF ~Running(cs) THEN cs ELSE
       [c3 EXCEPT !.created = @ + 1,
                  !.tmodel = [oid |-> cs.created + 1,
                              name |-> cs.model_name,
                              thermo_data |-> cs.thermo_data,
                              parent |-> cs.cmodel,
                              lexicon |-> cs.lexicon,
                              compartment_data |-> cs.compartment_data,
                              presolve |-> TRUE,
                              converted |-> TRUE]]

\* The locals of create_model on entry.
Entry(model_name, thermo_data, lexicon, compartment_data) ==
    [model_name |-> model_name,
     thermo_data |-> thermo_data,
     lexicon |-> lexicon,
     compartment_data |-> compartment_data,
     cmodel |-> None,
     tmodel |-> None,
     trace |-> <<[fn |-> "create_model",
                  arg |-> <<model_name, thermo_data, lexicon, compartment_data>>]>>,
     loggers |-> loggers,
     created |-> created,
     exc |-> NoException]

\* Faulty variant of create_model: the loggers are silenced before the
\* arguments are validated.
create_model_SilenceFirst(model_name, thermo_data, lexicon, compartment_data) ==
    Build(load_cbm(Validate(Silence(Entry(model_name, thermo_data, lexicon, compartment_data)))))

\* lines 93-146
create_model(model_name, thermo_data, lexicon, compartment_data) ==
    Build(load_cbm(Silence(Validate(Entry(model_name, thermo_data, lexicon, compartment_data)))))

\* What a finished call hands to its caller.
OutcomeOf(cs) ==
    IF cs.exc = NoException
    THEN [kind |-> "return", value |-> cs.tmodel, exc |-> NoException]
    ELSE [kind |-> "raise", value |-> None, exc |-> cs.exc]

\* The static folder as packaged or as a user has extended it; io.py is about
\* to be imported.
InitCreate ==
    /\ IdleAdjust
    /\ IdleScript
    /\ static_files \in SUBSET FileUniverse
    /\ static_dirs \in SUBSET DirUniverse
    /\ cpc = "import"
    /\ _list = <<>>
    /\ loggers = {}
    /\ created = 0
    /\ op = NoOp
    /\ trace = <<>>
    /\ outcome = NoOutcome
    /\ nOps = 0

\* lines 26-28 and 177: models = _ModelFactory()
ModelFactoryInit ==
    /\ cpc = "import"
    /\ \E paths \in Orderings(glob_json(static_files)) :
          _list' = [i \in 1..Len(paths) |-> ListedName(paths[i])]
    /\ cpc' = "ready"
    /\ UNCHANGED <<static_files, static_dirs, loggers, created, op, trace, outcome, nOps>>
    /\ UNCHANGED <<adjustVars, scriptVars>>

\* A caller calls create_model(model_name, thermo_data, lexicon, compartment_data).
CallCreateModel ==
    /\ cpc = "ready"
    /\ nOps < MaxOps
    /\ \E model_name \in ModelNames, thermo_data, lexicon, compartment_data \in DataValues :
          LET cs == create_model(model_name, thermo_data, lexicon, compartment_data) IN
          /\ op' = [kind |-> "create_model", item |-> model_name,
                    args |-> <<thermo_data, lexicon, compartment_data>>]
          /\ trace' = cs.trace
          /\ loggers' = cs.loggers
          /\ created' = cs.created
          /\ outcome' = OutcomeOf(cs)
    /\ nOps' = nOps + 1
    /\ UNCHANGED <<static_files, static_dirs, cpc, _list>>
    /\ UNCHANGED <<adjustVars, scriptVars>>

\* Faulty variant of the attribute access: a model returned by the operation
\* before is handed out again when it has the name asked for.
GetAttr_ReusesLast ==
    /\ cpc = "ready"
    /\ nOps < MaxOps
    /\ \E item \in AttrNames :
          /\ item \notin InstanceAttributes
          /\ item \in Range(_list)
          /\ op' = [kind |-> "getattr", item |-> item, args |-> <<None, None, None>>]
          /\ IF outcome.kind = "return" /\ outcome.value.name = item
             THEN /\ trace' = <<>>
                  /\ UNCHANGED <<loggers, created, outcome>>
             ELSE LET cs == create_model(item, None, None, None) IN
                  /\ trace' = cs.trace
                  /\ loggers' = cs.loggers
                  /\ created' = cs.created
                  /\ outcome' = OutcomeOf(cs)
    /\ nOps' = nOps + 1
    /\ UNCHANGED <<static_files, static_dirs, cpc, _list>>
    /\ UNCHANGED <<adjustVars, scriptVars>>

\* lines 33-35: models.<item> for an item of _list that the object has no
\* attribute of its own for
GetAttrListed ==
    /\ cpc = "ready"
    /\ nOps < MaxOps
    /\ \E item \in AttrNames :
          /\ item \notin InstanceAttributes
          /\ item \in Range(_list)
          /\ op' = [kind |-> "getattr", item |-> item, args |-> <<None, None, None>>]
          /\ LET cs == create_model(item, None, None, None) IN
             /\ trace' = cs.trace
             /\ loggers' = cs.loggers
             /\ created' = cs.created
             /\ outcome' = OutcomeOf(cs)
    /\ nOps' = nOps + 1
    /\ UNCHANGED <<static_files, static_dirs, cpc, _list>>
    /\ UNCHANGED <<adjustVars, scriptVars>>

\* lines 33-36: models.<item> for an item that is not in _list:
\* super().__getattribute__(item) raises AttributeError
GetAttrUnlisted ==
    /\ cpc = "ready"
    /\ nOps < MaxOps
    /\ \E item \in AttrNames :
          /\ item \notin InstanceAttributes
          /\ item \notin Range(_list)
          /\ op' = [kind |-> "getattr", item |-> item, args |-> <<None, None, None>>]
          /\ outcome' = [kind |-> "raise", value |-> None,
                         exc |-> [type |-> "AttributeError", line |-> 36]]
    /\ trace' = <<>>
    /\ nOps' = nOps + 1
    /\ UNCHANGED <<static_files, static_dirs, cpc, _list, loggers, created>>
    /\ UNCHANGED <<adjustVars, scriptVars>>

\* models.<item> for an attribute the object has: Python finds it without
\* calling __getattr__
GetAttrOwn ==
    /\ cpc = "ready"
    /\ nOps < MaxOps
    /\ \E item \in InstanceAttributes :
          /\ op' = [kind |-> "getattr", item |-> item, args |-> <<None, None, None>>]
          /\ outcome' = [kind |-> "return", value |-> [attribute |-> item], exc |-> NoException]
    /\ trace' = <<>>
    /\ nOps' = nOps + 1
    /\ UNCHANGED <<static_files, static_dirs, cpc, _list, loggers, created>>
    /\ UNCHANGED <<adjustVars, scriptVars>>

NextCreate ==
    \/ ModelFactoryInit
    \/ CallCreateModel
    \/ GetAttrListed
    \/ GetAttrUnlisted
    \/ GetAttrOwn

SpecCreate == InitCreate /\ [][NextCreate]_vars

(***************************************************************************)
(* Properties of create_model and of the factory (checked under SpecCreate)*)
(***************************************************************************)

\* The exception of line 124.
NotAllSupplied == [type |-> "ValueError", line |-> 124]

\* How many of the three optional arguments of the last operation are None.
NoneCount == Cardinality({i \in 1..3 : op.args[i] = None})

\* The last operation ran create_model (directly or through the factory).
RanCreateModel == trace /= <<>> /\ trace[1].fn = "create_model"

\* The names of the functions the last operation called.
CalledFns == {trace[i].fn : i \in 1..Len(trace)}

\* C1: create_model raises the ValueError of its validation exactly when
\* one or two of thermo_data, lexicon and compartment_data are None; with
\* all three None or none of them None the call does not fail there.
C1_ValueErrorIffMixed ==
    RanCreateModel =>
       /\ (outcome.kind = "raise" /\ outcome.exc = NotAllSupplied) <=> NoneCount \in {1, 2}
       /\ outcome.exc.type = "ValueError" <=> NoneCount \in {1, 2}

\* C1 witness: a call with only thermo_data None raised the ValueError, the
\* two other arguments being an empty and a filled container.
C1_Witness ==
    /\ op.kind = "create_model"
    /\ op.args = <<None, EmptyData, FullData>>
    /\ outcome.kind = "raise"
    /\ outcome.exc = NotAllSupplied

\* What load_data(model_name) returns when it returns.
LoadedTriple(model_name) ==
    <<FileData(<<"thermo_data.thermodb">>),
      FileData(model_name \o <<"lexicon.csv">>),
      FileData(model_name \o <<"compartment_data.json">>)>>

\* The data the model the last operation returned was built from.
BuiltFrom == <<outcome.value.thermo_data, outcome.value.lexicon, outcome.value.compartment_data>>

\* The data handed to ThermoModel, annotate_from_lexicon and
\* apply_compartment_data by the last operation.
HandedToLibrary ==
    LET At(fn) == CHOOSE i \in 1..Len(trace) : trace[i].fn = fn
    IN <<trace[At("ThermoModel")].arg[1],
         trace[At("annotate_from_lexicon")].arg[1],
         trace[At("apply_compartment_data")].arg[1]>>

\* C2: with all three arguments None, create_model calls load_data(model_name)
\* once and builds the model from the triple it returns; with all three
\* supplied (empty or not), load_data is not called and the ThermoModel is
\* constructed, annotated and given compartment data from the caller's
\* thermo_data, lexicon and compartment_data respectively.
C2_DataSource ==
    RanCreateModel =>
       /\ NoneCount = 3 =>
             /\ Cardinality({i \in 1..Len(trace) : trace[i].fn = "load_data"}) = 1
             /\ trace[2] = [fn |-> "load_data", arg |-> op.item]
             /\ outcome.kind = "return" =>
                   /\ BuiltFrom = LoadedTriple(op.item)
                   /\ HandedToLibrary = LoadedTriple(op.item)
       /\ NoneCount = 0 =>
             /\ "load_data" \notin CalledFns
             /\ outcome.kind = "return" =>
                   /\ BuiltFrom = op.args
                   /\ HandedToLibrary = op.args

\* C2 witness: a call that supplied an empty thermo_data, a filled lexicon and
\* an empty compartment_data returned a model.
C2_Witness ==
    /\ op.kind = "create_model"
    /\ op.args = <<EmptyData, FullData, EmptyData>>
    /\ outcome.kind = "return"
    /\ "load_data" \notin CalledFns

C8_ValidationFirst ==
    [][(nOps' = nOps + 1 /\ outcome'.exc = NotAllSupplied) =>
          /\ Len(trace') = 1
          /\ trace'[1].fn = "create_model"
          /\ loggers' = loggers
          /\ created' = created]_vars

\* C8 witness: a call for iJO1366 with partial data raised the ValueError and
\* the logger of iJO1366 is not silenced.
C8_Witness ==
    /\ op.kind = "create_model"
    /\ op.item = <<"iJO1366">>
    /\ outcome.exc = NotAllSupplied
    /\ LoggerName(<<"iJO1366">>) \notin loggers

\* C9: once the factory is constructed, every name of its list is the name of
\* a JSON file found in the static folder (name + ".json" exists, so load_cbm
\* finds it), and an access to a name that is neither in the list nor an
\* attribute of the object calls nothing and raises AttributeError.
C9_ListedNamesAreFiles ==
    /\ cpc = "ready" => \A n \in Range(_list) : JsonFile(n) \in glob_json(static_files)
    /\ (op.kind = "getattr" /\ op.item \notin Range(_list) /\ op.item \notin InstanceAttributes) =>
          /\ trace = <<>>
          /\ outcome.exc.type = "AttributeError"

(***************************************************************************)
(* generate_test_data.py                                                   *)
(***************************************************************************)

\* The CSV files the script reads from its working directory.
CsvFiles ==
    {"data_stage02_isotopomer_atomMappingReactions2.csv",
     "data_stage02_isotopomer_modelReactions.csv",
     "data_stage02_isotopomer_atomMappingMetabolites.csv",
     "data_stage02_isotopomer_measuredFluxes.csv",
     "data-1604345289079.csv",
     "data_stage02_isotopomer_tracers.csv"}

\* The statements of the script after its imports, in order: the line each
\* starts at, what it does, and the file or function it names.
Script ==
    <<[line |-> 33, kind |-> "open", arg |-> "test_data.obj"],
      [line |-> 38, kind |-> "read_csv", arg |-> "data_stage02_isotopomer_atomMappingReactions2.csv"],
      [line |-> 41, kind |-> "read_csv", arg |-> "data_stage02_isotopomer_modelReactions.csv"],
      [line |-> 45, kind |-> "read_csv", arg |-> "data_stage02_isotopomer_atomMappingMetabolites.csv"],
      [line |-> 48, kind |-> "read_csv", arg |-> "data_stage02_isotopomer_measuredFluxes.csv"],
      [line |-> 51, kind |-> "read_csv", arg |-> "data-1604345289079.csv"],
      [line |-> 52, kind |-> "read_csv", arg |-> "data_stage02_isotopomer_tracers.csv"],
      [line |-> 56, kind |-> "call", arg |-> "limit_to_one_model"],
      [line |-> 59, kind |-> "call", arg |-> "limit_to_one_model"],
      [line |-> 62, kind |-> "call", arg |-> "limit_to_one_model"],
      [line |-> 65, kind |-> "call", arg |-> "limit_to_one_model"],
      [line |-> 70, kind |-> "call", arg |-> "limit_to_one_experiment"],
      [line |-> 73, kind |-> "call", arg |-> "limit_to_one_experiment"],
      [line |-> 76, kind |-> "call", arg |-> "limit_to_one_experiment"],
      [line |-> 82, kind |-> "call", arg |-> "initiate_MATLAB_script"],
      [line |-> 84, kind |-> "call", arg |-> "add_reactions_to_script"],
      [line |-> 88, kind |-> "call", arg |-> "initialize_model"],
      [line |-> 90, kind |-> "call", arg |-> "symmetrical_metabolites"],
      [line |-> 95, kind |-> "call", arg |-> "unbalanced_reactions"],
      [line |-> 99, kind |-> "call", arg |-> "add_reaction_parameters"],
      [line |-> 106, kind |-> "call", arg |-> "verify_and_estimate"],
      [line |-> 108, kind |-> "call", arg |-> "add_experimental_parameters"],
      [line |-> 115, kind |-> "call", arg |-> "mapping"],
      [line |-> 123, kind |-> "call", arg |-> "script_generator"],
      [line |-> 132, kind |-> "call", arg |-> "runner_script_generator"],
      [line |-> 134, kind |-> "dump", arg |-> "filehandler"],
      [line |-> 160, kind |-> "close", arg |-> "filehandler"]>>

\* The script has stopped: it ran to its end or an exception ended it.
ScriptEnded == spc > Len(Script) \/ script_exc /= "none"

\* The statement about to run is of the given kind.
AtStatement(kind) == ~ScriptEnded /\ Script[spc].kind = kind

\* The script is started in a directory that holds some of the CSV files.
InitScript ==
    /\ IdleAdjust
    /\ IdleCreate
    /\ cwd_files \in SUBSET CsvFiles
    /\ spc = 1
    /\ filehandler = "unbound"
    /\ script_exc = "none"

\* line 33: filehandler = open("test_data.obj", "wb")
ScriptOpen ==
    /\ AtStatement("open")
    /\ filehandler' = "open"
    /\ spc' = spc + 1
    /\ UNCHANGED <<cwd_files, script_exc>>
    /\ UNCHANGED <<adjustVars, createVars>>

\* lines 38-52: pd.read_csv(file); a missing file ends the script
ScriptReadCsv ==
    /\ AtStatement("read_csv")
    /\ IF Script[spc].arg \in cwd_files
       THEN /\ spc' = spc + 1
            /\ script_exc' = script_exc
       ELSE /\ script_exc' = "FileNotFoundError"
            /\ spc' = spc
    /\ UNCHANGED <<cwd_files, filehandler>>
    /\ UNCHANGED <<adjustVars, createVars>>

\* lines 56-132: a call of an INCA_script_generator function that returns
ScriptCall ==
    /\ AtStatement("call")
    /\ spc' = spc + 1
    /\ UNCHANGED <<cwd_files, filehandler, script_exc>>
    /\ UNCHANGED <<adjustVars, createVars>>

\* lines 134-158: pickle.dump([...], filehandler)
ScriptDump ==
    /\ AtStatement("dump")
    /\ filehandler = "open"
    /\ spc' = spc + 1
    /\ UNCHANGED <<cwd_files, filehandler, script_exc>>
    /\ UNCHANGED <<adjustVars, createVars>>

\* line 160: filehandler.close()
ScriptClose ==
    /\ AtStatement("close")
    /\ filehandler' = "closed"
    /\ spc' = spc + 1
    /\ UNCHANGED <<cwd_files, script_exc>>
    /\ UNCHANGED <<adjustVars, createVars>>

\* open, a generator function or pickle.dump raises: the script has no try,
\* finally or with block, so the exception ends it at that statement.
ScriptStatementRaises ==
    /\ \/ AtStatement("open")
       \/ AtStatement("call")
       \/ AtStatement("dump")
    /\ \E e \in {"OSError", "KeyError", "PicklingError"} : script_exc' = e
    /\ UNCHANGED <<cwd_files, spc, filehandler>>
    /\ UNCHANGED <<adjustVars, createVars>>

NextScript ==
    \/ ScriptOpen
    \/ ScriptReadCsv
    \/ ScriptCall
    \/ ScriptDump
    \/ ScriptClose
    \/ ScriptStatementRaises

SpecScript == InitScript /\ [][NextScript]_vars

(***************************************************************************)
(* Properties of generate_test_data.py (checked under SpecScript)          *)
(***************************************************************************)

\* C6: the handle on test_data.obj is closed on every path that opened it,
\* the paths ended by a failing CSV read or generator call included, and
\* while it is open the next statement is one that uses it.
C6_HandleClosedAfterUse ==
    /\ ScriptEnded => filehandler /= "open"
    /\ (filehandler = "open" /\ ~ScriptEnded) => Script[spc].kind \in {"dump", "close"}


(***************************************************************************)
(* Properties of adjust_model (checked under SpecAdjust)                   *)
(***************************************************************************)

\* Index of the last row of table whose id is id (0 when there is none).
LastRowWithId(table, id) ==
    LET S == {j \in 1..Len(table) : table[j].id = id}
    IN IF S = {} THEN 0 ELSE CHOOSE j \in S : \A k \in S : k <= j

\* Index of the last row of lc_bounds that, with some compartment of the
\* model, names the log-concentration variable v (0 when there is none).
LastRowNaming(v) ==
    LET S == {j \in 1..Len(lc_bounds) :
                 \E c \in tmodel0.compartments : MetId(lc_bounds[j].id, c) = v}
    IN IF S = {} THEN 0 ELSE CHOOSE j \in S : \A k \in S : k <= j

\* C4: after adjust_model returns, every row of rxn_bounds whose id is a
\* reaction of tmodel has left the reaction of tmodel and the reaction of
\* tmodel.parent with the bounds of the last row carrying that id; an
\* exception raised in the reaction loop is raised at a row whose id is a
\* reaction of tmodel (rows with other ids are passed over without error).
C4_RxnBoundsApplied ==
    /\ apc = "returned" =>
          \A i \in 1..Len(rxn_bounds) :
             LET id == rxn_bounds[i].id
                 last == rxn_bounds[LastRowWithId(rxn_bounds, id)]
             IN id \in DOMAIN tmodel0.reactions =>
                   /\ tmodel.reactions[id] = <<last.lb, last.ub>>
                   /\ id \in DOMAIN tmodel.parent
                   /\ tmodel.parent[id] = <<last.lb, last.ub>>
    /\ (apc = "raised" /\ exc.line \in {167, 168}) =>
          /\ row \in 1..Len(rxn_bounds)
          /\ rxn_bounds[row].id \in DOMAIN tmodel0.reactions

\* C4 witness: a call returned whose table names r1 twice with different
\* bounds and also names r9, which is no reaction of the model.
C4_Witness ==
    /\ apc = "returned"
    /\ Len(rxn_bounds) >= 1
    /\ \E i, j \in 1..Len(rxn_bounds) : i < j /\ rxn_bounds[i].id = "r9" /\ rxn_bounds[j].id = "r1"
    /\ tmodel.reactions["r1"] /= tmodel0.reactions["r1"]

\* C5: after adjust_model returns, for every row of lc_bounds and every
\* compartment of tmodel, a log-concentration variable named met_compartment
\* that exists has the bounds of the last row that names it; an exception
\* raised in the log-concentration loop is raised at a pair whose variable
\* exists (pairs without a variable are passed over without error).
C5_LcBoundsApplied ==
    /\ apc = "returned" =>
          \A i \in 1..Len(lc_bounds) : \A c \in tmodel0.compartments :
             LET v == MetId(lc_bounds[i].id, c)
                 last == lc_bounds[LastRowNaming(v)]
             IN v \in DOMAIN tmodel0.log_concentration =>
                   tmodel.log_concentration[v] = <<last.lb, last.ub>>
    /\ (apc = "raised" /\ exc.line = 174) =>
          /\ row \in 1..Len(lc_bounds)
          /\ \E c \in todo : MetId(lc_bounds[row].id, c) \in DOMAIN tmodel0.log_concentration

\* C5 witness: a call returned in which one row for metabolite a changed the
\* variable of a in both compartments c and e.
C5_Witness ==
    /\ apc = "returned"
    /\ tmodel0.compartments = {"c", "e"}
    /\ Len(lc_bounds) = 1
    /\ lc_bounds[1].id = "a"
    /\ tmodel.log_concentration["a_c"] = <<lc_bounds[1].lb, lc_bounds[1].ub>>
    /\ tmodel.log_concentration["a_e"] = <<lc_bounds[1].lb, lc_bounds[1].ub>>
    /\ tmodel.log_concentration["a_b_c"] = tmodel0.log_concentration["a_b_c"]

\* C7: at every point of a call, whatever its outcome, a reaction of tmodel
\* or of tmodel.parent whose id is in no row of rxn_bounds, and a
\* log-concentration variable that no row of lc_bounds names with any
\* compartment of the model, has the bounds it had when the call began; no
\* reaction, variable or compartment is added or removed; with two empty
\* tables nothing changes.
C7_OnlyMatchingIdsChange ==
    /\ DOMAIN tmodel.reactions = DOMAIN tmodel0.reactions
    /\ DOMAIN tmodel.parent = DOMAIN tmodel0.parent
    /\ DOMAIN tmodel.log_concentration = DOMAIN tmodel0.log_concentration
    /\ tmodel.compartments = tmodel0.compartments
    /\ \A id \in DOMAIN tmodel0.reactions :
          LastRowWithId(rxn_bounds, id) = 0 => tmodel.reactions[id] = tmodel0.reactions[id]
    /\ \A id \in DOMAIN tmodel0.parent :
          LastRowWithId(rxn_bounds, id) = 0 => tmodel.parent[id] = tmodel0.parent[id]
    /\ \A v \in DOMAIN tmodel0.log_concentration :
          LastRowNaming(v) = 0 => tmodel.log_concentration[v] = tmodel0.log_concentration[v]
    /\ (rxn_bounds = <<>> /\ lc_bounds = <<>>) => tmodel = tmodel0

\* C7 witness: a call returned that changed r1 and a_c and left r2 and a_b_c,
\* which its tables do not name, as they were.
C7_Witness ==
    /\ apc = "returned"
    /\ tmodel.reactions["r1"] /= tmodel0.reactions["r1"]
    /\ tmodel.reactions["r2"] = tmodel0.reactions["r2"]
    /\ tmodel.log_concentration["a_c"] /= tmodel0.log_concentration["a_c"]
    /\ tmodel.log_concentration["a_b_c"] = tmodel0.log_concentration["a_b_c"]
    /\ LastRowNaming("a_b_c") = 0

\* The model after the setter calls ws, applied in order to m.
RECURSIVE Replay(_, _)
Replay(m, ws) ==
    IF ws = <<>> THEN m
    ELSE LET w == Head(ws)
             r == IF w.target = "lc" THEN lc_bounds[w.row] ELSE rxn_bounds[w.row]
             n == CASE w.target = "parent" ->
                          [m EXCEPT !.parent = [@ EXCEPT ![w.id] = <<r.lb, r.ub>>]]
                    [] w.target = "tmodel" ->
                          [m EXCEPT !.reactions = [@ EXCEPT ![w.id] = <<r.lb, r.ub>>]]
                    [] w.target = "lc" ->
                          [m EXCEPT !.log_concentration = [@ EXCEPT ![w.id] = <<r.lb, r.ub>>]]
         IN Replay(n, Tail(ws))

\* The setter calls of reaction row j that completed.
RxnWritesOfRow(j) == {k \in 1..Len(writes) : writes[k].target /= "lc" /\ writes[k].row = j}
\* The variables that log-concentration row j names and that were written for it.
LcWrittenForRow(j) == {writes[k].id : k \in {l \in 1..Len(writes) : writes[l].target = "lc" /\ writes[l].row = j}}
\* The variables that log-concentration row j names.
LcNamedByRow(j) ==
    {MetId(lc_bounds[j].id, c) : c \in tmodel0.compartments} \cap DOMAIN tmodel0.log_concentration

\* C10: the setter calls are made row by row in table order, reaction rows
\* before log-concentration rows and, within a reaction row, tmodel.parent
\* before tmodel; the model is at every point the model the call began with
\* plus the completed setter calls (nothing is rolled back); when an exception
\* leaves the call it is the library's own, every row before the failing one
\* is fully applied, no later row is applied, and a failure in the reaction
\* loop leaves every log-concentration bound untouched.
C10_RowOrderNoRollback ==
    /\ tmodel = Replay(tmodel0, writes)
    /\ \A k, l \in 1..Len(writes) : k < l =>
          /\ writes[k].target = "lc" => writes[l].target = "lc"
          /\ (writes[k].target = "lc") = (writes[l].target = "lc") => writes[k].row <= writes[l].row
    /\ \A k \in 1..Len(writes) : writes[k].target = "tmodel" =>
          /\ k > 1
          /\ writes[k - 1] = [target |-> "parent", id |-> writes[k].id, row |-> writes[k].row]
    /\ apc = "raised" =>
          /\ exc.type \in LibraryErrors \cup {"KeyError"}
          /\ exc.line \in {167, 168} =>
                /\ \A k \in 1..Len(writes) : writes[k].target /= "lc"
                /\ tmodel.log_concentration = tmodel0.log_concentration
                /\ \A j \in 1..Len(rxn_bounds) :
                      Cardinality(RxnWritesOfRow(j)) =
                         IF j < row /\ rxn_bounds[j].id \in DOMAIN tmodel0.reactions THEN 2
                         ELSE IF j = row /\ exc.line = 168 THEN 1
                         ELSE 0
          /\ exc.line = 174 =>
                /\ \A j \in 1..Len(rxn_bounds) :
                      Cardinality(RxnWritesOfRow(j)) =
                         IF rxn_bounds[j].id \in DOMAIN tmodel0.reactions THEN 2 ELSE 0
                /\ \A j \in 1..Len(lc_bounds) :
                      /\ j < row => LcWrittenForRow(j) = LcNamedByRow(j)
                      /\ j > row => LcWrittenForRow(j) = {}

\* C10 witness: the setter of the tmodel reaction raised in the second row
\* after the parent reaction of that row was written: the first row stays
\* applied and r1 has different bounds in tmodel.parent and in tmodel.
C10_Witness ==
    /\ apc = "raised"
    /\ exc.line = 168
    /\ row = 2
    /\ Len(writes) = 3
    /\ tmodel.parent["r1"] /= tmodel.reactions["r1"]
    /\ tmodel.reactions["r1"] /= tmodel0.reactions["r1"]

====
